---- MODULE Spec2Model ----
(***************************************************************************)
(* A model of steam-inventory: the five inventory fetchers of              *)
(* components/inventory.js (getUserInventoryContents,                      *)
(* getInventoryItemsWithDescriptions, getUserInventorySteamApis,           *)
(* getUserInventorySteamSupply, getUserInventoryRapid), the description    *)
(* index getDescription and the item normalizer CEconItem.                 *)
(*                                                                         *)
(* JavaScript values.  An object is a record that holds exactly the        *)
(* properties the object has, so "f \in DOMAIN o" is "o.f !== undefined".  *)
(* A value whose type varies (a body, an error, a cursor) is a record      *)
(* with a "type" field: Undefined, Null, Str(s), Obj(o), Error(m).         *)
(***************************************************************************)
EXTENDS Integers, Sequences, FiniteSets, TLC

VARIABLES
    pc,            \* "start": no entry point called yet; "waiting": one request
                   \* in flight; "done": the callback has run; "thrown": an
                   \* exception left the entry point or the response handler
    provider,      \* which entry point was called
    userID,        \* the userID argument: "missing", "invalid", "string", "object"
    apiKey,        \* the apiKey argument: "missing" or "present"
    tradableOnly,  \* the tradableOnly argument
    inventory,     \* get's inventory accumulator
    currency,      \* get's currency accumulator
    start,         \* get's start argument, the start_assetid of the request
    retries,       \* get's retries argument
    pos,           \* var pos of the entry point
    quickDescriptionLookup,  \* var quickDescriptionLookup of the entry point
    inFlight,      \* requests handed to httpRequest and not yet answered
    callbacks,     \* the invocations of the caller's callback, in order
    sentForCursor, \* history: requests issued for the current page (the
                   \* first one and its retries); 0 before the first request
    pages,         \* history: pages accumulated that asked for a next page
    accepted,      \* history: the envelopes the handler took as a page of the
                   \* inventory (the asset loop ran on them) or as the report
                   \* of an empty inventory, in order
    last,          \* history: the response handled last
    fetches,       \* two fetches running on one client at the same time: what
                   \* each call holds, the variables of each closure, and what
                   \* each fetch would hold had it run alone
    normalized,    \* one call of new CEconItem: its arguments and the record
    indexed,       \* two calls of getDescription in a row: the index before,
                   \* the arguments, what each returned and left behind
    calls,         \* one entry point called without the language argument
                   \* and called with it, for the same other arguments and
                   \* the same responses: what each call holds
    counted        \* one call of an entry point and the number of requests
                   \* it has handed to httpRequest

vars == << pc, provider, userID, apiKey, tradableOnly, inventory, currency,
           start, retries, pos, quickDescriptionLookup, inFlight, callbacks,
           sentForCursor, pages, accepted, last, fetches, normalized, indexed,
                    calls, counted >>

----------------------------------------------------------------------------
(* Bounds of the model *)

\* A provider sets more_items on at most MaxPages - 1 pages of one fetch.
MaxPages == 3

----------------------------------------------------------------------------
(* JavaScript values *)

Undefined == [type |-> "undefined"]
Null == [type |-> "null"]
Str(s) == [type |-> "string", s |-> s]
Obj(o) == [type |-> "object", o |-> o]
Error(m) == [type |-> "Error", message |-> m]

\* if (v) for a body: null, undefined and "" are falsy
Truthy(v) == v.type = "object" \/ (v.type = "string" /\ v.s # "")
\* v.f !== undefined; a property read on a string yields undefined
Has(v, f) == v.type = "object" /\ f \in DOMAIN v.o
\* if (v.f) for a boolean property
Flag(v, f) == Has(v, f) /\ v.o[f]
\* if (v.f) for a string property
Text(v, f) == Has(v, f) /\ v.o[f] # ""
\* v.f as a value of its own: Undefined when the property is absent
Prop(v, f) == IF Has(v, f) THEN [type |-> "value", v |-> v.o[f]] ELSE Undefined

\* o with property f set to v (added when absent)
Set(o, f, v) == [x \in DOMAIN o \cup {f} |-> IF x = f THEN v ELSE o[x]]

\* s.includes(t), on the strings the providers of this model send
includes(s, t) ==
    \/ s = t
    \/ s = "Error: " \o t
    \/ s = "The upstream server " \o t

----------------------------------------------------------------------------
(* The providers *)

Contents == "getUserInventoryContents"
IEcon == "getInventoryItemsWithDescriptions"
SteamApis == "getUserInventorySteamApis"
SteamSupply == "getUserInventorySteamSupply"
Rapid == "getUserInventoryRapid"
Providers == {Contents, IEcon, SteamApis, SteamSupply, Rapid}

\* get(inventory, currency, start, retries = 5)
RetriesSteamApis == 5
\* get(inventory, currency, start, retries = 5)
RetriesSteamSupply == 5
\* get(inventory, currency, start, retries = 10)
RetriesRapid == 10

----------------------------------------------------------------------------
(* The description index *)

\* classID + "_" + (instanceID || "0"), for an object o that carries them
DescriptionKey(o) ==
    (IF "classid" \in DOMAIN o THEN o.classid ELSE "undefined") \o "_" \o
    (IF "instanceid" \in DOMAIN o /\ o.instanceid # "" THEN o.instanceid ELSE "0")

\* A faulty loop, for C19: an entry is stored only under a key not yet there
RECURSIVE AbsorbKeepingFirst(_, _, _)
AbsorbKeepingFirst(lookup, descriptions, i) ==
    IF i > Len(descriptions) THEN lookup
    ELSE AbsorbKeepingFirst(
             IF DescriptionKey(descriptions[i]) \in DOMAIN lookup THEN lookup
             ELSE Set(lookup, DescriptionKey(descriptions[i]), descriptions[i]),
             descriptions, i + 1)

\* for (i = 0; i < descriptions.length; i++) lookup[key(descriptions[i])] = descriptions[i]
RECURSIVE Absorb(_, _, _)
Absorb(lookup, descriptions, i) ==
    IF i > Len(descriptions) THEN lookup
    ELSE Absorb(Set(lookup, DescriptionKey(descriptions[i]), descriptions[i]),
                descriptions, i + 1)

\* A faulty getDescription, for C26: the list is absorbed on every call
getDescriptionLookupAlways(lookup, descriptions, asset) ==
    Absorb(lookup, descriptions, 1)

\* The index getDescription leaves behind: unchanged on a hit, the list
\* absorbed on a miss
getDescriptionLookup(lookup, descriptions, asset) ==
    IF DescriptionKey(asset) \in DOMAIN lookup THEN lookup
    ELSE Absorb(lookup, descriptions, 1)

\* What getDescription returns: the description, or Undefined
resolve(lookup, key) == IF key \in DOMAIN lookup THEN Obj(lookup[key]) ELSE Undefined

getDescription(lookup, descriptions, asset) ==
    resolve(getDescriptionLookup(lookup, descriptions, asset), DescriptionKey(asset))

----------------------------------------------------------------------------
(* The item normalizer *)

NaN == [type |-> "NaN"]
Num(n) == [type |-> "number", v |-> n]

\* parseInt(s, 10) on the amounts of this model
parseInt(s) ==
    CASE s = "1" -> Num(1)
      [] s = "5" -> Num(5)
      [] s = "-2" -> Num(0 - 2)
      [] OTHER -> NaN

\* this.id || this.assetid (or this.currencyid): Undefined when both are falsy
FirstTruthy(o, f, g) ==
    IF f \in DOMAIN o /\ o[f] # "" THEN [type |-> "value", v |-> o[f]]
    ELSE IF g \in DOMAIN o THEN [type |-> "value", v |-> o[g]]
    ELSE Undefined

\* o.f = v for a value v that may be Undefined: an undefined property is absent
SetValue(o, f, v) ==
    IF v = Undefined THEN [x \in DOMAIN o \ {f} |-> o[x]] ELSE Set(o, f, v.v)

\* var isCurrency = !!(this.is_currency || this.currency) ||
\*                  typeof this.currencyid !== "undefined"
isCurrency(item) ==
    \/ ("is_currency" \in DOMAIN item /\ item.is_currency)
    \/ ("currency" \in DOMAIN item /\ item.currency)
    \/ "currencyid" \in DOMAIN item

\* this.currencyid = this.id = this.id || this.currencyid, or
\* this.assetid = this.id = this.id || this.assetid
assignId(o, role) ==
    SetValue(SetValue(o, "id", FirstTruthy(o, "id", role)), role,
             FirstTruthy(o, "id", role))

\* this.f = this.f || d, for a string property
orDefault(o, f, d) == Set(o, f, IF f \in DOMAIN o /\ o[f] # "" THEN o[f] ELSE d)

\* this.amount = parseInt(this.amount, 10)
parseAmount(o) ==
    Set(o, "amount", parseInt(IF "amount" \in DOMAIN o THEN o.amount ELSE "undefined"))

\* if (description[this.classid + "_" + this.instanceid])
\*     description = description[this.classid + "_" + this.instanceid]
keyedDescription(o, description) ==
    IF description # Undefined /\ DescriptionKey(o) \in DOMAIN description.o
    THEN Obj(description.o[DescriptionKey(o)])
    ELSE description

\* for (thing in description) this[thing] = description[thing]
copyDescription(o, description) ==
    IF description = Undefined THEN o
    ELSE [x \in DOMAIN o \cup DOMAIN description.o |->
             IF x \in DOMAIN description.o THEN description.o[x] ELSE o[x]]

\* if (description) { ... }: the description's properties, those of its
\* entry under this item's key when it has one
withDescription(o, description) ==
    copyDescription(o, keyedDescription(o, description))

\* this.f = !!this.f, for a property the providers send as 0 or 1
toBoolean(o, f) == Set(o, f, f \in DOMAIN o /\ o[f] # 0)

\* if (this.currency) delete this.currency
deleteCurrency(o) ==
    IF "currency" \in DOMAIN o /\ o.currency
    THEN [x \in DOMAIN o \ {"currency"} |-> o[x]] ELSE o

\* The values of owner descriptions in this model
TradableAfter == "Tradable After Jan 1, 2030 (8:00:00) GMT"
TradableAfterSoon == "Tradable After soon"
NotTradable == "This item can not be traded"

\* d.value && d.value.indexOf("Tradable After ") == 0
startsTradableAfter(d) ==
    "value" \in DOMAIN d /\ d.value \in {TradableAfter, TradableAfterSoon}

\* this.owner_descriptions.find(...), from index i on: Undefined when no
\* entry is found
RECURSIVE find(_, _)
find(owner_descriptions, i) ==
    IF i > Len(owner_descriptions) THEN Undefined
    ELSE IF startsTradableAfter(owner_descriptions[i])
    THEN Obj(owner_descriptions[i])
    ELSE find(owner_descriptions, i + 1)

\* A RangeError leaves the constructor: there is no item
RangeError == [thrown |-> "RangeError"]

\* new Date(value.substring(15).replace(/[,()]/g, "")).toISOString(): the
\* time as an ISO string; of an invalid Date toISOString throws a RangeError
toISOString(value) ==
    IF value = TradableAfter THEN Str("2030-01-01T08:00:00.000Z") ELSE RangeError

\* if (this.appid == 730 && this.contextid == 2 && this.owner_descriptions) { ... }
tradableAfter(o) ==
    IF /\ "appid" \in DOMAIN o /\ o.appid = 730
       /\ o.contextid = "2"
       /\ "owner_descriptions" \in DOMAIN o
       /\ find(o.owner_descriptions, 1) # Undefined
    THEN IF toISOString(find(o.owner_descriptions, 1).o.value) = RangeError
         THEN RangeError
         ELSE Set(o, "cache_expiration",
                  toISOString(find(o.owner_descriptions, 1).o.value).s)
    ELSE o

\* A faulty statement, for C28: item_expiration is copied only when
\* cache_expiration is not set yet
itemExpirationUnlessSet(o) ==
    IF "thrown" \in DOMAIN o THEN o
    ELSE IF /\ "item_expiration" \in DOMAIN o /\ o.item_expiration # ""
            /\ "cache_expiration" \notin DOMAIN o
    THEN Set(o, "cache_expiration", o.item_expiration)
    ELSE o

\* if (this.item_expiration) this.cache_expiration = this.item_expiration
itemExpiration(o) ==
    IF "thrown" \in DOMAIN o THEN o
    ELSE IF "item_expiration" \in DOMAIN o /\ o.item_expiration # ""
    THEN Set(o, "cache_expiration", o.item_expiration)
    ELSE o

\* new CEconItem(item, description, contextID), as far as the identity, the
\* amount, the description's properties, the flags and the cache expiration
\* go
CEconItem(item, description, context) ==
    deleteCurrency(itemExpiration(tradableAfter(
    toBoolean(toBoolean(toBoolean(
    Set(withDescription(
            orDefault(parseAmount(orDefault(
                assignId(item, IF isCurrency(item) THEN "currencyid" ELSE "assetid"),
                "instanceid", "0")), "contextid", context),
            description),
        "is_currency", isCurrency(item)),
    "tradable"), "marketable"), "commodity"))))

----------------------------------------------------------------------------
(* The asset loop of a response handler *)

\* The contextID argument of every call of this model
contextID == "2"

\* A faulty filter, for C12: tradableOnly is not looked at
passesFilterAlways(tradable, description) == TRUE

\* !tradableOnly || (description && description.tradable)
passesFilter(tradable, description) ==
    \/ ~tradable
    \/ /\ description # Undefined
       /\ "tradable" \in DOMAIN description.o
       /\ description.o.tradable # 0

\* body.assets[i].currencyid ? currency : inventory
toCurrency(asset) == "currencyid" \in DOMAIN asset /\ asset.currencyid # ""

\* for (var i = 0; i < assets.length; i++) { ... }, from index i on, on the
\* loop state s = [inventory, currency, pos, lookup]
\* The body of the loop for one asset: s is the loop state with the index
\* getDescription left behind, description what getDescription returned
\* A faulty loop body, for C13: an asset the filter rejects takes a position too
loopBodyCountingAll(s, asset, description, tradable) ==
    IF ~passesFilter(tradable, description) THEN [s EXCEPT !.pos = @ + 1]
    ELSE IF toCurrency(asset)
    THEN [s EXCEPT !.pos = @ + 1,
                   !.currency = Append(@, CEconItem(Set(asset, "pos", s.pos),
                                                    description, contextID))]
    ELSE [s EXCEPT !.pos = @ + 1,
                   !.inventory = Append(@, CEconItem(Set(asset, "pos", s.pos),
                                                     description, contextID))]

loopBody(s, asset, description, tradable) ==
    IF ~passesFilter(tradable, description) THEN s
    ELSE IF toCurrency(asset)
    THEN [s EXCEPT !.pos = @ + 1,
                   !.currency = Append(@, CEconItem(Set(asset, "pos", s.pos),
                                                    description, contextID))]
    ELSE [s EXCEPT !.pos = @ + 1,
                   !.inventory = Append(@, CEconItem(Set(asset, "pos", s.pos),
                                                     description, contextID))]

RECURSIVE assetLoop(_, _, _, _, _)
assetLoop(assets, descriptions, tradable, i, s) ==
    IF i > Len(assets) THEN s
    ELSE assetLoop(assets, descriptions, tradable, i + 1,
             loopBody([s EXCEPT !.lookup =
                          getDescriptionLookup(s.lookup, descriptions, assets[i])],
                      assets[i],
                      getDescription(s.lookup, descriptions, assets[i]),
                      tradable))

----------------------------------------------------------------------------
(* What the providers send *)

a1 == [assetid |-> "a1", classid |-> "c1", instanceid |-> "0", amount |-> "1"]
a2 == [assetid |-> "a2", classid |-> "c2", amount |-> "5"]
a3 == [assetid |-> "a3", classid |-> "c3", instanceid |-> "0", currencyid |-> "k3",
       amount |-> "1"]
a4 == [assetid |-> "a4", classid |-> "c9", amount |-> "1"]
\* marked as currency by is_currency, without a currencyid
a5 == [assetid |-> "a5", classid |-> "c3", instanceid |-> "0", is_currency |-> TRUE,
       amount |-> "1"]

d1 == [classid |-> "c1", instanceid |-> "0", tradable |-> 1, name |-> "one"]
d1x == [classid |-> "c1", instanceid |-> "0", tradable |-> 0, name |-> "uno"]
d2 == [classid |-> "c2", tradable |-> 0, name |-> "two"]
d3 == [classid |-> "c3", instanceid |-> "0", tradable |-> 1, name |-> "gems"]

\* The inventory pages: envelopes without the success and more_items flags.
\* The third names a last_assetid no asset of the page has, and describes
\* class c1 otherwise than the first; the fourth is empty and names none.
Pages == {
    [assets |-> <<a1, a2>>, descriptions |-> <<d1, d2>>, last_assetid |-> "a2",
     total_inventory_count |-> 4],
    [assets |-> <<a3, a5, a4>>, descriptions |-> <<d3>>, last_assetid |-> "a4",
     total_inventory_count |-> 4],
    [assets |-> <<a1>>, descriptions |-> <<d1x>>, last_assetid |-> "a9",
     total_inventory_count |-> 3],
    [assets |-> <<>>, descriptions |-> <<>>, total_inventory_count |-> 4] }

Value(x) == [type |-> "value", v |-> x]
EmptyObject == [x \in {} |-> x]
TryAgain == "Could not retrieve user inventory. Please try again later."
TookTooLong == "took too long to respond"

\* The envelopes of the responses that carry no error: the pages, with and
\* without more_items, the empty inventory, and the malformed ones
Envelopes ==
    { p @@ [success |-> TRUE] : p \in Pages }
    \cup { p @@ [success |-> TRUE, more_items |-> TRUE] : p \in Pages }
    \cup { [success |-> TRUE, total_inventory_count |-> 0],
           [success |-> TRUE, total_inventory_count |-> 0, assets |-> <<a1>>,
            descriptions |-> <<d1>>, more_items |-> TRUE, last_assetid |-> "a1"],
           [success |-> TRUE, total_inventory_count |-> 0, fake_redirect |-> TRUE],
           [fake_redirect |-> TRUE],
           EmptyObject,
           [success |-> FALSE, error |-> "Bad request"],
           [success |-> FALSE, Error |-> "Denied"],
           [success |-> TRUE, descriptions |-> <<d1>>, total_inventory_count |-> 4],
           [success |-> TRUE, assets |-> <<a1>>] }

\* "HTTP error " + response.statusCode
HttpErrorMessage(code) ==
    CASE code = 403 -> "HTTP error 403"
      [] code = 404 -> "HTTP error 404"
      [] code = 429 -> "HTTP error 429"
      [] code = 500 -> "HTTP error 500"
      [] code = 504 -> "HTTP error 504"

Answer(body) == [err |-> Null, response |-> Obj([statusCode |-> 200]), body |-> body]
HttpError(code, body) ==
    [err |-> Error(HttpErrorMessage(code)), response |-> Obj([statusCode |-> code]),
     body |-> body]

\* What httpRequest hands the response handler on an error status, and on a
\* failure of the connection (no response object, no body)
ErrorResponses ==
    { HttpError(403, Null),
      HttpError(403, Str("Error: Invalid API key")),
      HttpError(403, Str("Inventory Private")),
      HttpError(403, Obj([error |-> "Access denied"])),
      HttpError(403, Obj([message |-> "Forbidden"])),
      HttpError(404, Null),
      HttpError(404, Obj([error |-> "Not found"])),
      HttpError(429, Null),
      HttpError(500, Obj([error |-> "Failed (15)"])),
      HttpError(500, Obj([error |-> TryAgain])),
      HttpError(504, Obj([info |-> "The upstream server " \o TookTooLong])),
      HttpError(504, Obj([error |-> "Gateway timeout"])),
      [err |-> Error("ETIMEDOUT"), response |-> Undefined, body |-> Undefined] }

\* What httpRequest hands the response handler of provider p
Responses(p) ==
    ErrorResponses
    \cup { Answer(Null), Answer(Str("<html>")) }
    \cup IF p = IEcon
         THEN { Answer(Obj([response |-> e])) : e \in Envelopes }
              \cup { Answer(Obj(EmptyObject)), Answer(Obj([error |-> "Bad request"])) }
         ELSE { Answer(Obj(e)) : e \in Envelopes }

\* The envelope a response carries for provider p, Undefined when it has none
Envelope(p, r) ==
    IF p = IEcon
    THEN IF Has(r.body, "response") THEN Obj(r.body.o.response) ELSE Undefined
    ELSE IF r.body.type = "object" THEN r.body ELSE Undefined

----------------------------------------------------------------------------
(* The response handlers.  A handler is a function of the fetch's state     *)
(* s = [inventory, currency, start, retries, pos, lookup, tradableOnly]     *)
(* and the response r = [err, response, body]; it yields what the handler   *)
(* does last: it calls the callback, it calls get again, or it throws.      *)

loopState(s) ==
    [inventory |-> s.inventory, currency |-> s.currency, pos |-> s.pos,
     lookup |-> s.lookup]

\* A faulty callback, for C5: on an error it hands the accumulators over as
\* well, callback(err, inventory, currency)
callbackWithResults(s, args) ==
    [kind |-> "callback",
     args |-> IF args[1] = Null THEN args
              ELSE << args[1], s.inventory, s.currency >>,
     s |-> loopState(s), accepted |-> Undefined]

\* callback(args...); return
callback(s, args) ==
    [kind |-> "callback", args |-> args, s |-> loopState(s), accepted |-> Undefined]
\* A faulty get, for C6: the next request starts from empty accumulators,
\* get([], [], start, retries)
requestFromEmpty(s, cursor, budget, page) ==
    [kind |-> "get", start |-> cursor, retries |-> budget, page |-> page,
     s |-> [inventory |-> << >>, currency |-> << >>, pos |-> s.pos,
            lookup |-> s.lookup],
     accepted |-> Undefined]

\* get(inventory, currency, start, retries): one more request
request(s, cursor, budget, page) ==
    [kind |-> "get", start |-> cursor, retries |-> budget, page |-> page,
     s |-> loopState(s), accepted |-> Undefined]
\* a TypeError leaves the handler
throw(s) == [kind |-> "throw", s |-> loopState(s), accepted |-> Undefined]
\* history: the handler took envelope body as a page or as an empty inventory
accept(out, body) == [out EXCEPT !.accepted = body]

\* A faulty retry, for C7: the retry is not counted,
\* get(inventory, currency, start, retries)
retryUncounted(s) ==
    [kind |-> "get", start |-> s.start, retries |-> s.retries, page |-> FALSE,
     s |-> loopState(s), accepted |-> Undefined]

\* A faulty retry, for C21: the retry starts the fetch over,
\* pos = 1; quickDescriptionLookup = {}; get([], [], start, retries - 1)
retryFromEmpty(s) ==
    [kind |-> "get", start |-> s.start, retries |-> s.retries - 1, page |-> FALSE,
     s |-> [inventory |-> << >>, currency |-> << >>, pos |-> 1,
            lookup |-> EmptyObject],
     accepted |-> Undefined]

\* get(inventory, currency, start, retries - 1)
retry(s) == request(s, s.start, s.retries - 1, FALSE)

\* new Error(body.error || body.Error || "Malformed response")
malformedMessage(body) ==
    IF Text(body, "error") THEN body.o.error
    ELSE IF Text(body, "Error") THEN body.o.Error
    ELSE "Malformed response"

\* The asset id of the last asset of a page, Undefined for a page without assets
lastAssetOf(assets) ==
    IF Len(assets) = 0 THEN Undefined
    ELSE [type |-> "value", v |-> assets[Len(assets)].assetid]

\* A faulty end of the handler, for C9: the cursor of the next request is taken
\* from the asset list, get(inventory, currency, body.assets[last].assetid)
afterLoopFromAssets(after, body, budget) ==
    IF Flag(body, "more_items")
    THEN [kind |-> "get", start |-> lastAssetOf(body.o.assets), retries |-> budget,
          page |-> TRUE, s |-> loopState(after), accepted |-> body]
    ELSE [kind |-> "callback",
          args |-> << Null, after.inventory, after.currency,
                      Prop(body, "total_inventory_count") >>,
          s |-> loopState(after), accepted |-> body]

\* if (body.more_items) get(inventory, currency, body.last_assetid)
\* else callback(null, inventory, currency, body.total_inventory_count)
afterLoop(after, body, budget) ==
    IF Flag(body, "more_items")
    THEN accept(request(after, Prop(body, "last_assetid"), budget, TRUE), body)
    ELSE accept(callback(after, << Null, after.inventory, after.currency,
                                   Prop(body, "total_inventory_count") >>), body)

\* A faulty handler, for C10: the envelope is validated before the
\* empty-inventory test, so an empty inventory without assets is malformed
onBodyValidatingFirst(s, body, budget) ==
    IF \/ ~Truthy(body) \/ ~Flag(body, "success")
       \/ ~Has(body, "assets") \/ ~Has(body, "descriptions")
    THEN callback(s, << Error(malformedMessage(body)) >>)
    ELSE IF Has(body, "total_inventory_count") /\ body.o.total_inventory_count = 0
    THEN accept(callback(s, << Null, <<>>, <<>>, Value(0) >>), body)
    ELSE afterLoop(assetLoop(body.o.assets, body.o.descriptions, s.tradableOnly,
                             1, loopState(s)),
                   body, budget)

\* A faulty handler, for C25: an empty inventory reported on a later page
\* delivers what was accumulated, callback(null, inventory, currency, 0)
onBodyDeliveringOnZero(s, body, budget) ==
    IF /\ Truthy(body) /\ Flag(body, "success")
       /\ Has(body, "total_inventory_count") /\ body.o.total_inventory_count = 0
    THEN accept(callback(s, << Null, s.inventory, s.currency, Value(0) >>), body)
    ELSE IF \/ ~Truthy(body) \/ ~Flag(body, "success")
            \/ ~Has(body, "assets") \/ ~Has(body, "descriptions")
    THEN IF Truthy(body)
         THEN callback(s, << Error(malformedMessage(body)) >>)
         ELSE callback(s, << Error("Malformed response") >>)
    ELSE afterLoop(assetLoop(body.o.assets, body.o.descriptions, s.tradableOnly,
                             1, loopState(s)),
                   body, budget)

\* A faulty handler, for C23: the next page is asked for with the retries
\* that are left, get(inventory, currency, body.last_assetid, retries)
onBodyKeepingRetries(s, body, budget) ==
    IF /\ Truthy(body) /\ Flag(body, "success")
       /\ Has(body, "total_inventory_count") /\ body.o.total_inventory_count = 0
    THEN accept(callback(s, << Null, <<>>, <<>>, Value(0) >>), body)
    ELSE IF \/ ~Truthy(body) \/ ~Flag(body, "success")
            \/ ~Has(body, "assets") \/ ~Has(body, "descriptions")
    THEN IF Truthy(body)
         THEN callback(s, << Error(malformedMessage(body)) >>)
         ELSE callback(s, << Error("Malformed response") >>)
    ELSE afterLoop(assetLoop(body.o.assets, body.o.descriptions, s.tradableOnly,
                             1, loopState(s)),
                   body, s.retries)

\* The handler from the empty-inventory test on, for a response without
\* error, on the envelope body; budget is the default of get's retries
\* parameter.  The same statements stand in getUserInventoryContents,
\* getUserInventorySteamApis, getUserInventorySteamSupply and
\* getUserInventoryRapid.
onBody(s, body, budget) ==
    IF /\ Truthy(body) /\ Flag(body, "success")
       /\ Has(body, "total_inventory_count") /\ body.o.total_inventory_count = 0
    THEN accept(callback(s, << Null, <<>>, <<>>, Value(0) >>), body)
    ELSE IF \/ ~Truthy(body) \/ ~Flag(body, "success")
            \/ ~Has(body, "assets") \/ ~Has(body, "descriptions")
    THEN IF Truthy(body)
         THEN callback(s, << Error(malformedMessage(body)) >>)
         ELSE callback(s, << Error("Malformed response") >>)
    ELSE afterLoop(assetLoop(body.o.assets, body.o.descriptions, s.tradableOnly,
                             1, loopState(s)),
                   body, budget)

\* body.error.match(/^(.+) \((\d+)\)$/), on the error texts of this model
eresultMatch(text) ==
    IF text = "Failed (15)" THEN << "Failed", "15" >> ELSE << >>

\* getUserInventoryContents: function (err, response, body)
get_Contents(s, r) ==
    IF r.err # Null
    THEN IF r.err.message = "HTTP error 403" /\ r.body = Null
         THEN callback(s, << Error("This profile is private.") >>)
         ELSE IF /\ r.err.message = "HTTP error 500" /\ Truthy(r.body)
                 /\ Text(r.body, "error")
         THEN IF eresultMatch(r.body.o.error) # << >>
              THEN callback(s, << [type |-> "Error",
                                   message |-> eresultMatch(r.body.o.error)[1],
                                   eresult |-> eresultMatch(r.body.o.error)[2]] >>)
              ELSE callback(s, << Error(r.body.o.error) >>)
         ELSE callback(s, << r.err >>)
    ELSE onBody(s, r.body, 0)

\* getInventoryItemsWithDescriptions: the handler from the empty-inventory
\* test on, for a response without error; env is body.response
onResponse(s, body, env) ==
    IF /\ Truthy(body) /\ Has(env, "total_inventory_count")
       /\ env.o.total_inventory_count = 0
    THEN accept(callback(s, << Null, <<>>, <<>>, Value(0) >>), env)
    ELSE IF ~Truthy(body) \/ ~Has(env, "assets") \/ ~Has(env, "descriptions")
    THEN IF Truthy(body)
         THEN callback(s, << Error(malformedMessage(body)) >>)
         ELSE callback(s, << Error("Malformed response") >>)
    ELSE afterLoop(assetLoop(env.o.assets, env.o.descriptions, s.tradableOnly,
                             1, loopState(s)),
                   env, 0)

\* getInventoryItemsWithDescriptions: function (err, response, body)
get_IEcon(s, r) ==
    IF r.err # Null
    THEN IF r.response = Undefined THEN throw(s)       \* response.statusCode
         ELSE IF r.response.o.statusCode = 403
         THEN callback(s, << Error("Invalid API key") >>)
         ELSE callback(s, << r.err >>)
    ELSE IF Truthy(r.body) /\ ~Has(r.body, "response")
    THEN throw(s)                                      \* body.response.total_inventory_count
    ELSE onResponse(s, r.body,
                    IF Truthy(r.body) THEN Obj(r.body.o.response) ELSE Undefined)

\* err.message == "HTTP error 404" ||
\* (body && body.error == "Could not retrieve user inventory. Please try again later.")
transientSteamApis(r) ==
    \/ r.err.message = "HTTP error 404"
    \/ (Truthy(r.body) /\ Has(r.body, "error") /\ r.body.o.error = TryAgain)

\* getUserInventorySteamApis: function (err, response, body)
get_SteamApis(s, r) ==
    IF r.err # Null
    THEN IF transientSteamApis(r) /\ s.retries > 0 THEN retry(s)
         ELSE IF r.err.message = "HTTP error 403"
         THEN callback(s, << Error("This profile is private.") >>)
         ELSE IF Truthy(r.body) /\ Text(r.body, "error")
         THEN callback(s, << Error(r.body.o.error) >>)
         ELSE callback(s, << r.err >>)
    ELSE onBody(s, r.body, RetriesSteamApis)

\* String(v), for new Error(response.body)
toString(v) == IF v.type = "string" THEN v.s ELSE "[object Object]"

\* getUserInventorySteamSupply: function (err, response, body); response.body
\* is the body the handler is given
get_SteamSupply(s, r) ==
    IF r.err # Null
    THEN IF r.err.message = "HTTP error 500" /\ s.retries > 0 THEN retry(s)
         ELSE IF /\ r.err.message = "HTTP error 403"
                 /\ r.body.type = "object"
         THEN throw(s)                                 \* response.body.includes
         ELSE IF /\ r.err.message = "HTTP error 403" /\ Truthy(r.body)
                 /\ includes(r.body.s, "Invalid API key")
         THEN callback(s, << Error("Invalid API key") >>)
         ELSE IF /\ r.err.message = "HTTP error 403" /\ Truthy(r.body)
                 /\ includes(r.body.s, "Inventory Private")
         THEN callback(s, << Error("This profile is private.") >>)
         ELSE IF r.response # Undefined /\ Truthy(r.body)
         THEN callback(s, << Error(toString(r.body)) >>)
         ELSE callback(s, << r.err >>)
    ELSE IF r.body = Null THEN throw(s)                \* null.fake_redirect
    ELSE IF (r.body.type # "object" \/ Flag(r.body, "fake_redirect")) /\ s.retries > 0
    THEN retry(s)
    ELSE onBody(s, r.body, RetriesSteamSupply)

\* (response.statusCode == 429 && body == null) ||
\* (response.statusCode == 504 && body && body.info.includes("took too long to respond")) ||
\* (body && body.error == "Could not retrieve user inventory. Please try again later.")
transientRapid(r) ==
    \/ (r.response.o.statusCode = 429 /\ r.body \in {Null, Undefined})
    \/ (r.response.o.statusCode = 504 /\ Truthy(r.body)
        /\ includes(r.body.o.info, TookTooLong))
    \/ (Truthy(r.body) /\ Has(r.body, "error") /\ r.body.o.error = TryAgain)

\* getUserInventoryRapid: function (err, response, body)
get_Rapid(s, r) ==
    IF r.err # Null
    THEN IF r.response = Undefined THEN throw(s)       \* response.statusCode
         ELSE IF /\ r.response.o.statusCode = 504 /\ Truthy(r.body)
                 /\ ~Has(r.body, "info")
         THEN throw(s)                                 \* body.info.includes
         ELSE IF transientRapid(r) /\ s.retries > 0 THEN retry(s)
         ELSE IF Truthy(r.body) /\ Has(r.body, "message")
                 /\ r.body.o.message = "Forbidden"
         THEN callback(s, << Error("Forbidden") >>)
         ELSE IF r.err.message = "HTTP error 403"
         THEN callback(s, << Error("This profile is private.") >>)
         ELSE IF Truthy(r.body) /\ Text(r.body, "error")
         THEN callback(s, << Error(r.body.o.error) >>)
         ELSE callback(s, << r.err >>)
    ELSE onBody(s, r.body, RetriesRapid)

----------------------------------------------------------------------------
(* The entry points *)

\* The userID argument: falsy, a string that is no SteamID, a string that is
\* one, a SteamID object
UserIDs == {"missing", "invalid", "string", "object"}
ApiKeys == {"missing", "present"}

\* new SteamID(userID): the constructor throws on a string it cannot parse
SteamID(u) == IF u = "invalid" THEN "throws" ELSE "object"

\* Does the entry point take an apiKey?
takesApiKey(p) == p # Contents

\* The default of get's retries parameter; get has none in the two providers
\* that never retry
retryBudget(p) ==
    CASE p = SteamApis -> RetriesSteamApis
      [] p = SteamSupply -> RetriesSteamSupply
      [] p = Rapid -> RetriesRapid
      [] OTHER -> 0

\* A faulty validation, for C4: the apiKey is not looked at
validateIdentityOnly(p, u, k) ==
    IF u = "missing"
    THEN [kind |-> "callback",
          args |-> << Error("The user's SteamID is invalid or missing.") >>]
    ELSE IF u \in {"invalid", "string"} /\ SteamID(u) = "throws"
    THEN [kind |-> "throw"]
    ELSE [kind |-> "get"]

\* The statements of an entry point before get([], []): "callback" with the
\* Error it reports, "throws", or "get"
validate(p, u, k) ==
    IF u = "missing"
    THEN [kind |-> "callback",
          args |-> << Error("The user's SteamID is invalid or missing.") >>]
    ELSE IF takesApiKey(p) /\ k = "missing"
    THEN [kind |-> "callback", args |-> << Error("The apiKey is missing.") >>]
    ELSE IF u \in {"invalid", "string"} /\ SteamID(u) = "throws"
    THEN [kind |-> "throw"]
    ELSE [kind |-> "get"]

\* A call of an entry point with arguments u, k and t, v being what its
\* statements before get([], []) come to
Called(p, u, k, t, v) ==
    /\ provider' = p
    /\ apiKey' = (IF takesApiKey(p) THEN k ELSE "none")
    /\ tradableOnly' = t
    /\ IF v.kind = "callback"
       THEN /\ pc' = "done"
            /\ callbacks' = Append(callbacks, v.args)
            /\ userID' = u
            /\ UNCHANGED << pos, inFlight, sentForCursor, retries >>
       ELSE IF v.kind = "throw"
       THEN /\ pc' = "thrown"
            /\ userID' = u
            /\ UNCHANGED << callbacks, pos, inFlight, sentForCursor, retries >>
       ELSE \* userID = new SteamID(userID); var pos = 1; get([], [])
            /\ pc' = "waiting"
            /\ userID' = "object"
            /\ pos' = 1
            /\ retries' = retryBudget(p)
            /\ inFlight' = inFlight + 1
            /\ sentForCursor' = 1
            /\ UNCHANGED callbacks
    /\ UNCHANGED << inventory, currency, start, quickDescriptionLookup, pages,
                    accepted, last, fetches, normalized, indexed,
                    calls, counted >>

Call(p) ==
    \E u \in UserIDs, k \in ApiKeys, t \in BOOLEAN :
        Called(p, u, k, t, validate(p, u, k))

getUserInventoryContents ==
    /\ pc = "start"
    /\ Call(Contents)
getInventoryItemsWithDescriptions ==
    /\ pc = "start"
    /\ Call(IEcon)
getUserInventorySteamApis ==
    /\ pc = "start"
    /\ Call(SteamApis)
getUserInventorySteamSupply ==
    /\ pc = "start"
    /\ Call(SteamSupply)
getUserInventoryRapid ==
    /\ pc = "start"
    /\ Call(Rapid)

----------------------------------------------------------------------------
(* httpRequest answers the request in flight and the handler runs *)

fetchState ==
    [inventory |-> inventory, currency |-> currency, start |-> start,
     retries |-> retries, pos |-> pos, lookup |-> quickDescriptionLookup,
     tradableOnly |-> tradableOnly]

setsMoreItems(p, r) == Flag(Envelope(p, r), "more_items")

\* A faulty count, for C15: get sends its request twice
outstandingTwice(out, n) == IF out.kind = "get" THEN n - 1 + 2 ELSE n - 1

\* The requests outstanding once the handler has run, of n before: the one it
\* was called for is answered, and get, when the handler ends by calling it,
\* hands one request to httpRequest
outstanding(out, n) == IF out.kind = "get" THEN n - 1 + 1 ELSE n - 1

\* The handler has run on response r and ended as out says
Handled(out, r) ==
    /\ pc' = (CASE out.kind = "callback" -> "done"
                [] out.kind = "get" -> "waiting"
                [] out.kind = "throw" -> "thrown")
    /\ inventory' = out.s.inventory
    /\ currency' = out.s.currency
    /\ pos' = out.s.pos
    /\ quickDescriptionLookup' = out.s.lookup
    /\ start' = (IF out.kind = "get" THEN out.start ELSE start)
    /\ retries' = (IF out.kind = "get" THEN out.retries ELSE retries)
    /\ callbacks' = (IF out.kind = "callback"
                     THEN Append(callbacks, out.args) ELSE callbacks)
    /\ inFlight' = outstanding(out, inFlight)
    /\ sentForCursor' = (IF out.kind = "get"
                         THEN IF out.page THEN 1 ELSE sentForCursor + 1
                         ELSE sentForCursor)
    /\ pages' = (IF out.kind = "get" /\ out.page THEN pages + 1 ELSE pages)
    /\ accepted' = (IF out.accepted = Undefined THEN accepted
                    ELSE Append(accepted, out.accepted.o))
    /\ last' = r
    /\ UNCHANGED << provider, userID, apiKey, tradableOnly, fetches, normalized, indexed,
                    calls, counted >>

\* The responses httpRequest may hand the handler now: a provider sets
\* more_items on at most MaxPages - 1 pages
Offered(p) ==
    { r \in Responses(p) : setsMoreItems(p, r) => pages + 1 < MaxPages }

RespondContents ==
    /\ pc = "waiting" /\ provider = Contents /\ inFlight > 0
    /\ \E r \in Offered(Contents) : Handled(get_Contents(fetchState, r), r)
RespondIEcon ==
    /\ pc = "waiting" /\ provider = IEcon /\ inFlight > 0
    /\ \E r \in Offered(IEcon) : Handled(get_IEcon(fetchState, r), r)
RespondSteamApis ==
    /\ pc = "waiting" /\ provider = SteamApis /\ inFlight > 0
    /\ \E r \in Offered(SteamApis) : Handled(get_SteamApis(fetchState, r), r)
RespondSteamSupply ==
    /\ pc = "waiting" /\ provider = SteamSupply /\ inFlight > 0
    /\ \E r \in Offered(SteamSupply) : Handled(get_SteamSupply(fetchState, r), r)
RespondRapid ==
    /\ pc = "waiting" /\ provider = Rapid /\ inFlight > 0
    /\ \E r \in Offered(Rapid) : Handled(get_Rapid(fetchState, r), r)

----------------------------------------------------------------------------
(* The specification *)

NoResponse == [type |-> "none"]

\* new CEconItem has not been called, getDescription has not been called
NotNormalized ==
    [called |-> FALSE, item |-> EmptyObject, description |-> Undefined,
     record |-> EmptyObject]
NotIndexed ==
    [called |-> FALSE, before |-> EmptyObject, descriptions |-> << >>,
     asset |-> EmptyObject, first |-> Undefined, between |-> EmptyObject,
     second |-> Undefined, after |-> EmptyObject]

\* The two fetches of one client, and the one closure each call creates
Fetches == {1, 2}

\* A fetch not started: the arguments and locals of get, and the callback's
\* invocations
NotCalled ==
    [pc |-> "start", provider |-> "none", tradableOnly |-> FALSE,
     inventory |-> << >>, currency |-> << >>, start |-> Undefined, retries |-> 0,
     callbacks |-> << >>, pages |-> 0]
\* The variables an entry point declares: var pos, var quickDescriptionLookup
NoClosure == [pos |-> 0, lookup |-> EmptyObject]

NoFetches ==
    [live |-> [f \in Fetches |-> NotCalled],
     closure |-> [f \in Fetches |-> NoClosure],
     alone |-> [f \in Fetches |-> [fetch |-> NotCalled, closure |-> NoClosure]]]

\* A function value, and the call that has not been made: the record of a
\* fetch with the language and callback the entry point works with, the
\* query string of the request sent last, and the closure's variables
Function(f) == [type |-> "function", f |-> f]
NoCall ==
    [pc |-> "start", provider |-> "none", tradableOnly |-> FALSE,
     inventory |-> << >>, currency |-> << >>, start |-> Undefined, retries |-> 0,
     callbacks |-> << >>, pages |-> 0, language |-> Undefined,
     callback |-> Undefined, request |-> Undefined, pos |-> 0,
     lookup |-> EmptyObject]
NoCalls == [given |-> "none", omitted |-> NoCall, full |-> NoCall]
NotCounted == [call |-> NoCall, sent |-> 0]

\* No entry point has been called
Constructed ==
    /\ pc = "start"
    /\ provider = "none"
    /\ userID = "none"
    /\ apiKey = "none"
    /\ tradableOnly = FALSE
    /\ inventory = << >>
    /\ currency = << >>
    /\ start = Undefined
    /\ retries = 0
    /\ pos = 0
    /\ quickDescriptionLookup = EmptyObject
    /\ inFlight = 0
    /\ callbacks = << >>
    /\ sentForCursor = 0
    /\ pages = 0
    /\ accepted = << >>
    /\ last = NoResponse
    /\ fetches = NoFetches

Init ==
    /\ Constructed
    /\ normalized = NotNormalized
    /\ indexed = NotIndexed
    /\ calls = NoCalls
    /\ counted = NotCounted

Next ==
    \/ getUserInventoryContents
    \/ getInventoryItemsWithDescriptions
    \/ getUserInventorySteamApis
    \/ getUserInventorySteamSupply
    \/ getUserInventoryRapid
    \/ RespondContents
    \/ RespondIEcon
    \/ RespondSteamApis
    \/ RespondSteamSupply
    \/ RespondRapid

Spec == Init /\ [][Next]_vars

\* httpRequest answers the request in flight
Responded ==
    \/ RespondContents
    \/ RespondIEcon
    \/ RespondSteamApis
    \/ RespondSteamSupply
    \/ RespondRapid

\* The fetch when every request handed to httpRequest is answered in the end
SpecLive == Init /\ [][Next]_vars /\ WF_vars(Responded)

----------------------------------------------------------------------------
(* Two fetches on one client, their responses arriving in any order *)

\* A fetch of this part asks for at most MaxPagesTwo pages
MaxPagesTwo == 2

\* and meets at most MaxFailuresTwo failed requests
MaxFailuresTwo == 1

\* A faulty scope, for C16: pos and quickDescriptionLookup declared once for
\* the client and not in the entry point's body
closureOfClient(f) == 1

\* The closure the handlers of fetch f read and write: var pos and
\* var quickDescriptionLookup stand in the body of the entry point, so each
\* call has its own
closureOf(f) == f

\* The handler of provider p
handler(p, s, r) ==
    CASE p = Contents -> get_Contents(s, r)
      [] p = IEcon -> get_IEcon(s, r)
      [] p = SteamApis -> get_SteamApis(s, r)
      [] p = SteamSupply -> get_SteamSupply(s, r)
      [] p = Rapid -> get_Rapid(s, r)

\* What the handler of a fetch sees: get's arguments and the closure's variables
joined(fetch, closure) ==
    [inventory |-> fetch.inventory, currency |-> fetch.currency,
     start |-> fetch.start, retries |-> fetch.retries, pos |-> closure.pos,
     lookup |-> closure.lookup, tradableOnly |-> fetch.tradableOnly]

\* The fetch and the closure once the handler has ended as out says
fetchAfter(fetch, out) ==
    [fetch EXCEPT
        !.pc = (CASE out.kind = "callback" -> "done"
                  [] out.kind = "get" -> "waiting"
                  [] out.kind = "throw" -> "thrown"),
        !.inventory = out.s.inventory,
        !.currency = out.s.currency,
        !.start = (IF out.kind = "get" THEN out.start ELSE @),
        !.retries = (IF out.kind = "get" THEN out.retries ELSE @),
        !.callbacks = (IF out.kind = "callback" THEN Append(@, out.args) ELSE @),
        !.pages = (IF out.kind = "get" /\ out.page THEN @ + 1 ELSE @)]
closureAfter(out) == [pos |-> out.s.pos, lookup |-> out.s.lookup]

\* The two pages the providers send here: they describe class c1 differently
PagesTwo ==
    { pg \in Pages : "last_assetid" \in DOMAIN pg /\ pg.last_assetid \in {"a2", "a9"} }

\* What httpRequest hands the handler of provider p here: a page, with or
\* without more_items, or a failure that three providers retry
ResponsesTwo(p) ==
    { HttpError(500, Obj([error |-> TryAgain])) }
    \cup IF p = IEcon
         THEN { Answer(Obj([response |-> pg @@ [success |-> TRUE]])) : pg \in PagesTwo }
              \cup { Answer(Obj([response |-> pg @@ [success |-> TRUE, more_items |-> TRUE]])) :
                       pg \in PagesTwo }
         ELSE { Answer(Obj(pg @@ [success |-> TRUE])) : pg \in PagesTwo }
              \cup { Answer(Obj(pg @@ [success |-> TRUE, more_items |-> TRUE])) :
                       pg \in PagesTwo }

OfferedTwo(fetch) ==
    { r \in ResponsesTwo(fetch.provider) :
        /\ setsMoreItems(fetch.provider, r) => fetch.pages + 1 < MaxPagesTwo
        /\ r.err # Null => retryBudget(fetch.provider) - fetch.retries < MaxFailuresTwo }

\* The entry point p is called for fetch f with valid arguments:
\* var pos = 1; get([], []); var quickDescriptionLookup = {}
Started(f, fetch) ==
    fetches' =
        [live |-> [fetches.live EXCEPT ![f] = fetch],
         closure |-> [fetches.closure EXCEPT
                         ![closureOf(f)] = [pos |-> 1, lookup |-> EmptyObject]],
         alone |-> [fetches.alone EXCEPT
                       ![f] = [fetch |-> fetch,
                               closure |-> [pos |-> 1, lookup |-> EmptyObject]]]]

StartFetch ==
    /\ \E f \in Fetches, p \in Providers, t \in BOOLEAN :
          /\ fetches.live[f].pc = "start"
          /\ Started(f, [NotCalled EXCEPT !.pc = "waiting", !.provider = p,
                                          !.tradableOnly = t,
                                          !.retries = retryBudget(p)])
    /\ UNCHANGED << pc, provider, userID, apiKey, tradableOnly, inventory, currency,
                    start, retries, pos, quickDescriptionLookup, inFlight,
                    callbacks, sentForCursor, pages, accepted, last, normalized, indexed,
                    calls, counted >>

\* The handler of fetch f has run, ending as out says; outAlone is how it
\* ends for the same response when the fetch runs alone
Answered(f, out, outAlone) ==
    fetches' =
        [live |-> [fetches.live EXCEPT ![f] = fetchAfter(@, out)],
         closure |-> [fetches.closure EXCEPT ![closureOf(f)] = closureAfter(out)],
         alone |-> [fetches.alone EXCEPT
                       ![f] = [fetch |-> fetchAfter(@.fetch, outAlone),
                               closure |-> closureAfter(outAlone)]]]

AnswerFetch ==
    /\ \E f \in Fetches :
          /\ fetches.live[f].pc = "waiting"
          /\ \E r \in OfferedTwo(fetches.live[f]) :
                Answered(f,
                    handler(fetches.live[f].provider,
                            joined(fetches.live[f], fetches.closure[closureOf(f)]), r),
                    handler(fetches.live[f].provider,
                            joined(fetches.alone[f].fetch, fetches.alone[f].closure), r))
    /\ UNCHANGED << pc, provider, userID, apiKey, tradableOnly, inventory, currency,
                    start, retries, pos, quickDescriptionLookup, inFlight,
                    callbacks, sentForCursor, pages, accepted, last, normalized, indexed,
                    calls, counted >>

NextTwo ==
    \/ StartFetch
    \/ AnswerFetch

SpecTwo == Init /\ [][NextTwo]_vars

----------------------------------------------------------------------------
(* The item normalizer on its own *)

\* f absent, or f with one of the values vs
Optional(f, vs) == { EmptyObject } \cup { [x \in {f} |-> v] : v \in vs }

\* The raw assets a provider can send, as far as identity and amount go
RawAssets ==
    { [classid |-> "c1"] @@ i @@ a @@ k @@ m @@ c @@ n :
        i \in Optional("id", {"i1"}),
        a \in Optional("assetid", {"a1"}),
        k \in Optional("currencyid", {"k1", ""}),
        m \in Optional("is_currency", {TRUE}),
        c \in Optional("currency", {TRUE}),
        n \in Optional("amount", {"1", "5", "-2", "many"}) }

\* The descriptions handed to the normalizer: none, a plain one, one that
\* carries an id, one that carries an amount (a string, which nothing
\* parses), and one keyed by class and instance
RawDescriptions ==
    { Undefined,
      Obj(d1),
      Obj([classid |-> "c1", instanceid |-> "0", tradable |-> 1, id |-> "d9"]),
      Obj([classid |-> "c1", instanceid |-> "0", tradable |-> 1, amount |-> Str("7")]),
      Obj([c1_0 |-> d1]) }

\* new CEconItem(item, description, contextID) is about to be called
InitItem ==
    /\ Constructed
    /\ indexed = NotIndexed
    /\ calls = NoCalls
    /\ counted = NotCounted
    /\ normalized \in
           { [NotNormalized EXCEPT !.item = item, !.description = description] :
               item \in RawAssets, description \in RawDescriptions }

Normalize ==
    /\ ~normalized.called
    /\ normalized' =
           [normalized EXCEPT
               !.called = TRUE,
               !.record = CEconItem(normalized.item, normalized.description, contextID)]
    /\ UNCHANGED << pc, provider, userID, apiKey, tradableOnly, inventory, currency,
                    start, retries, pos, quickDescriptionLookup, inFlight,
                    callbacks, sentForCursor, pages, accepted, last, fetches,
                    indexed, calls, counted >>

NextItem == Normalize

SpecItem == InitItem /\ [][NextItem]_vars

----------------------------------------------------------------------------
(* The item normalizer on items that expire *)

\* The raw assets, as far as the cache expiration goes: of app 730, of
\* another app or of none, of context 2 or 6, with an item_expiration, an
\* empty one or none, with or without owner descriptions of their own
ExpiringAssets ==
    { [assetid |-> "a1", classid |-> "c1", amount |-> "1"] @@ a @@ c @@ e @@ o :
        a \in Optional("appid", {730, 440}),
        c \in Optional("contextid", {"2", "6"}),
        e \in Optional("item_expiration", {"2031-05-01T00:00:00Z", ""}),
        o \in Optional("owner_descriptions", {<< [value |-> TradableAfter] >>}) }

\* The descriptions: none, one without owner descriptions, and one with each
\* of these lists of them
ExpiringDescriptions ==
    { Undefined, Obj(d1) }
    \cup { Obj(d1 @@ [owner_descriptions |-> l]) :
             l \in { << >>,
                     << [value |-> NotTradable] >>,
                     << [value |-> TradableAfter] >>,
                     << [value |-> NotTradable], [value |-> TradableAfter] >>,
                     << [value |-> TradableAfterSoon] >> } }

\* new CEconItem(item, description, contextID) is about to be called
InitExpiring ==
    /\ Constructed
    /\ indexed = NotIndexed
    /\ calls = NoCalls
    /\ counted = NotCounted
    /\ normalized \in
           { [NotNormalized EXCEPT !.item = item, !.description = description] :
               item \in ExpiringAssets, description \in ExpiringDescriptions }

SpecExpiring == InitExpiring /\ [][NextItem]_vars

----------------------------------------------------------------------------
(* The description index on its own *)

\* A description list has at most MaxDescriptions entries
MaxDescriptions == 2

\* d2 with its instanceid spelled out, and with an empty one
d2zero == [classid |-> "c2", instanceid |-> "0", tradable |-> 1, name |-> "zwei"]
d2empty == [classid |-> "c2", instanceid |-> "", tradable |-> 1, name |-> "deux"]

RECURSIVE ListsUpTo(_, _)
ListsUpTo(S, n) ==
    IF n = 0 THEN { << >> }
    ELSE ListsUpTo(S, n - 1)
         \cup { Append(l, d) : l \in ListsUpTo(S, n - 1), d \in S }

\* The description lists of a response body
DescriptionLists == ListsUpTo({d1, d1x, d2, d2zero, d2empty, d3}, MaxDescriptions)

\* The assets looked up: of a class with an instanceid, without one, with an
\* empty one, and of a class nothing describes
LookedUp ==
    { [classid |-> "c1", instanceid |-> "0"], [classid |-> "c2"],
      [classid |-> "c2", instanceid |-> "0"], [classid |-> "c2", instanceid |-> ""],
      [classid |-> "c9"] }

\* The index as earlier pages of the fetch can have left it
EarlierIndexes == { Absorb(EmptyObject, l, 1) : l \in ListsUpTo({d1x, d2, d3}, 1) }

\* getDescription is about to be called, twice in a row with the same arguments
InitIndex ==
    /\ Constructed
    /\ normalized = NotNormalized
    /\ calls = NoCalls
    /\ counted = NotCounted
    /\ indexed \in
           { [NotIndexed EXCEPT !.before = lookup, !.descriptions = descriptions,
                                !.asset = asset] :
               lookup \in EarlierIndexes, descriptions \in DescriptionLists,
               asset \in LookedUp }

Resolve ==
    /\ ~indexed.called
    /\ indexed' =
           [indexed EXCEPT
               !.called = TRUE,
               !.first = getDescription(indexed.before, indexed.descriptions,
                                        indexed.asset),
               !.between = getDescriptionLookup(indexed.before, indexed.descriptions,
                                                indexed.asset),
               !.second = getDescription(
                              getDescriptionLookup(indexed.before, indexed.descriptions,
                                                   indexed.asset),
                              indexed.descriptions, indexed.asset),
               !.after = getDescriptionLookup(
                             getDescriptionLookup(indexed.before, indexed.descriptions,
                                                  indexed.asset),
                             indexed.descriptions, indexed.asset)]
    /\ UNCHANGED << pc, provider, userID, apiKey, tradableOnly, inventory, currency,
                    start, retries, pos, quickDescriptionLookup, inFlight,
                    callbacks, sentForCursor, pages, accepted, last, fetches,
                    normalized, calls, counted >>

NextIndex == Resolve

SpecIndex == InitIndex /\ [][NextIndex]_vars

----------------------------------------------------------------------------
(* An entry point called without and with the language argument *)

Languages == {"english", "german"}
Callers == {"f", "g"}

\* A faulty head of the entry point, for C20: the arguments are taken as
\* they stand
defaultLanguageNever(language, fn) ==
    [language |-> language, callback |-> fn]

\* if (typeof language === "function") { callback = language; language = "english"; }
defaultLanguage(language, fn) ==
    IF language.type = "function"
    THEN [language |-> Str("english"), callback |-> language]
    ELSE [language |-> language, callback |-> fn]

\* callback(...) for the call's callback: a TypeError when it is no function
invoke(call, args) ==
    IF call.callback.type = "function"
    THEN [call EXCEPT !.pc = "done", !.callbacks = Append(@, args)]
    ELSE [call EXCEPT !.pc = "thrown"]

\* The entry point p with arguments u, k, t and the language and callback
\* that a holds, v being what the statements before get([], []) come to
entered(p, u, k, t, a, v) ==
    CASE v.kind = "callback" ->
           invoke([NoCall EXCEPT !.provider = p, !.tradableOnly = t,
                                 !.language = a.language, !.callback = a.callback],
                  v.args)
      [] v.kind = "throw" ->
           [NoCall EXCEPT !.pc = "thrown", !.provider = p, !.tradableOnly = t,
                          !.language = a.language, !.callback = a.callback]
      [] v.kind = "get" ->
           [NoCall EXCEPT !.pc = "waiting", !.provider = p, !.tradableOnly = t,
                          !.language = a.language, !.callback = a.callback,
                          !.retries = retryBudget(p), !.pos = 1,
                          !.request = Obj([l |-> a.language,
                                           start_assetid |-> Undefined])]

\* The call once its handler has ended as out says
callAfter(call, out) ==
    CASE out.kind = "callback" ->
           invoke([call EXCEPT !.inventory = out.s.inventory,
                               !.currency = out.s.currency,
                               !.pos = out.s.pos, !.lookup = out.s.lookup],
                  out.args)
      [] out.kind = "throw" ->
           [call EXCEPT !.pc = "thrown", !.inventory = out.s.inventory,
                        !.currency = out.s.currency,
                        !.pos = out.s.pos, !.lookup = out.s.lookup]
      [] out.kind = "get" ->
           [call EXCEPT !.inventory = out.s.inventory,
                        !.currency = out.s.currency,
                        !.pos = out.s.pos, !.lookup = out.s.lookup,
                        !.start = out.start, !.retries = out.retries,
                        !.pages = (IF out.page THEN @ + 1 ELSE @),
                        !.request = Obj([l |-> call.language,
                                         start_assetid |-> out.start])]

\* The call once response r has come in, when it waits for one
answered(call, r) ==
    IF call.pc = "waiting"
    THEN callAfter(call, handler(call.provider, joined(call, call), r))
    ELSE call

\* One entry point is called twice with the same userID, apiKey, tradableOnly
\* and function f: as (..., tradableOnly, f) and as (..., tradableOnly, l, f)
CallTwice ==
    /\ calls.given = "none"
    /\ \E p \in Providers, u \in UserIDs, k \in ApiKeys, t \in BOOLEAN,
          f \in Callers, l \in Languages :
          calls' =
              [given |-> l,
               omitted |-> entered(p, u, k, t,
                                   defaultLanguage(Function(f), Undefined),
                                   validate(p, u, k)),
               full |-> entered(p, u, k, t,
                                defaultLanguage(Str(l), Function(f)),
                                validate(p, u, k))]
    /\ UNCHANGED << pc, provider, userID, apiKey, tradableOnly, inventory, currency,
                    start, retries, pos, quickDescriptionLookup, inFlight,
                    callbacks, sentForCursor, pages, accepted, last, fetches,
                    normalized, indexed, counted >>

\* The requests of the two calls get the same response
AnswerTwice ==
    /\ calls.full.pc = "waiting"
    /\ \E r \in OfferedTwo(calls.full) :
          calls' = [calls EXCEPT !.omitted = answered(@, r),
                                 !.full = answered(@, r)]
    /\ UNCHANGED << pc, provider, userID, apiKey, tradableOnly, inventory, currency,
                    start, retries, pos, quickDescriptionLookup, inFlight,
                    callbacks, sentForCursor, pages, accepted, last, fetches,
                    normalized, indexed, counted >>

NextLanguage ==
    \/ CallTwice
    \/ AnswerTwice

SpecLanguage == Init /\ [][NextLanguage]_vars

----------------------------------------------------------------------------
(* The requests of one fetch, counted *)

\* The provider sets more_items on at most MaxPagesCounted - 1 pages
MaxPagesCounted == 3

OfferedCounted(call) ==
    { r \in ResponsesTwo(call.provider) :
        setsMoreItems(call.provider, r) => call.pages + 1 < MaxPagesCounted }

\* An entry point is called with valid arguments: get([], []) sends the
\* first request
StartCounted ==
    /\ counted.call.pc = "start"
    /\ \E p \in Providers, t \in BOOLEAN :
          counted' =
              [call |-> entered(p, "object", "present", t,
                                defaultLanguage(Str("english"), Function("f")),
                                validate(p, "object", "present")),
               sent |-> 1]
    /\ UNCHANGED << pc, provider, userID, apiKey, tradableOnly, inventory, currency,
                    start, retries, pos, quickDescriptionLookup, inFlight,
                    callbacks, sentForCursor, pages, accepted, last, fetches,
                    normalized, indexed, calls >>

\* The call once response r has come in, and the requests sent by then: one
\* more when the handler ended by calling get
countedAfter(call, n) ==
    [call |-> call, sent |-> IF call.pc = "waiting" THEN n + 1 ELSE n]

AnswerCounted ==
    /\ counted.call.pc = "waiting"
    /\ \E r \in OfferedCounted(counted.call) :
          counted' = countedAfter(answered(counted.call, r), counted.sent)
    /\ UNCHANGED << pc, provider, userID, apiKey, tradableOnly, inventory, currency,
                    start, retries, pos, quickDescriptionLookup, inFlight,
                    callbacks, sentForCursor, pages, accepted, last, fetches,
                    normalized, indexed, calls >>

NextCounted ==
    \/ StartCounted
    \/ AnswerCounted

SpecCounted == Init /\ [][NextCounted]_vars

----------------------------------------------------------------------------
(* The claims *)

\* C1: for every provider and every sequence of responses, the caller's
\* callback is invoked exactly once per fetch: never twice, and, once the
\* fetch has ended after at least one response, never zero times.
C1_ExactlyOneCallback ==
    /\ Len(callbacks) <= 1
    /\ (pc \in {"done", "thrown"} /\ last # NoResponse) => Len(callbacks) = 1

\* C2: whatever the transport hands back, no error is thrown out of the
\* response handler.
C2_NothingThrownFromHandler == last # NoResponse => pc # "thrown"

\* C3: a userID string that does not parse is reported through the callback,
\* once, with an Error; the entry point does not throw and sends no request.
C3_UnparsableIdentityReported ==
    userID = "invalid" =>
        /\ pc = "done"
        /\ Len(callbacks) = 1
        /\ callbacks[1][1].type = "Error"
        /\ inFlight = 0
        /\ sentForCursor = 0

\* C4: a missing userID, or a missing apiKey where the entry point takes one,
\* ends the call with exactly one callback invocation carrying an Error alone;
\* no request is sent and no pagination state is created.
C4_MissingArgumentRejected ==
    (pc # "start" /\ (userID = "missing" \/ apiKey = "missing")) =>
        /\ pc = "done"
        /\ Len(callbacks) = 1
        /\ Len(callbacks[1]) = 1
        /\ callbacks[1][1].type = "Error"
        /\ inFlight = 0
        /\ sentForCursor = 0
        /\ pos = 0
        /\ pages = 0
        /\ inventory = << >>
        /\ currency = << >>
        /\ start = Undefined
        /\ quickDescriptionLookup = EmptyObject

\* C4, its case: an entry point that takes an apiKey was called with a userID
\* and without an apiKey
C4_ApiKeyWasMissing ==
    /\ pc = "done"
    /\ provider = Rapid
    /\ apiKey = "missing"
    /\ userID = "string"
    /\ Len(callbacks) = 1

\* C5: every invocation of the callback that reports a failure carries exactly
\* one argument, an Error: no inventory, no currency, no total.
C5_ErrorIsTheOnlyArgument ==
    \A i \in 1..Len(callbacks) :
        callbacks[i][1] # Null =>
            (Len(callbacks[i]) = 1 /\ callbacks[i][1].type = "Error")

\* C5, its case: the fetch failed after pages had been accumulated
C5_FailedAfterPages ==
    /\ pc = "done"
    /\ pages > 0
    /\ inventory # << >>
    /\ Len(callbacks) = 1
    /\ callbacks[1][1].type = "Error"

\* The envelope e reports an inventory of size zero
C6_ReportsZero(e) ==
    "total_inventory_count" \in DOMAIN e /\ e.total_inventory_count = 0

\* The assets and descriptions of envelope e, none when it lists none
C6_Assets(e) == IF "assets" \in DOMAIN e THEN e.assets ELSE << >>
C6_Descriptions(e) == IF "descriptions" \in DOMAIN e THEN e.descriptions ELSE << >>

\* The loop state of a fetch before its first page
C6_Empty ==
    [inventory |-> << >>, currency |-> << >>, pos |-> 1, lookup |-> EmptyObject]

\* The filtered and normalized assets of the accepted pages i.., appended in
\* fetch order to loop state s
RECURSIVE C6_Concatenation(_, _)
C6_Concatenation(i, s) ==
    IF i > Len(accepted) THEN s
    ELSE C6_Concatenation(i + 1,
             assetLoop(C6_Assets(accepted[i]), C6_Descriptions(accepted[i]),
                       tradableOnly, 1, s))

\* The one invocation of the callback delivers loop state s and the total of
\* the last accepted page
C6_Delivered(s) ==
    callbacks = << << Null, s.inventory, s.currency,
                      Prop(Obj(accepted[Len(accepted)]), "total_inventory_count") >> >>

\* The fetch is over and the last successful page did not set more_items
C6_LastPageHandled ==
    /\ pc = "done"
    /\ accepted # << >>
    /\ ~Flag(Obj(accepted[Len(accepted)]), "more_items")

\* C6, as the specification states it: after n successful pages of which only
\* the last does not set more_items, the callback has fired exactly once, not
\* before the last page, with the concatenation of every page's filtered and
\* normalized assets and the last page's total.
C6_EveryPageDelivered ==
    /\ pc = "waiting" => callbacks = << >>
    /\ C6_LastPageHandled => C6_Delivered(C6_Concatenation(1, C6_Empty))

\* C6, amended: the same, for pages none of which reports a
\* total_inventory_count of 0.
C6_EveryNonEmptyPageDelivered ==
    /\ pc = "waiting" => callbacks = << >>
    /\ (C6_LastPageHandled /\ \A i \in 1..Len(accepted) : ~C6_ReportsZero(accepted[i]))
           => C6_Delivered(C6_Concatenation(1, C6_Empty))

\* C6, its case: three pages were fetched and delivered, items and currency
C6_ThreePagesDelivered ==
    /\ C6_LastPageHandled
    /\ Len(accepted) = 3
    /\ ~C6_ReportsZero(accepted[3])
    /\ Len(callbacks) = 1
    /\ callbacks[1][1] = Null
    /\ Len(callbacks[1][2]) >= 3
    /\ callbacks[1][3] # << >>

\* The providers that retry, and what each takes for a transient failure: an
\* error status or an error body
C7_Retrying == {SteamApis, SteamSupply, Rapid}

C7_Status(r) == IF r.response = Undefined THEN 0 ELSE r.response.o.statusCode

C7_TryAgain(r) == Has(r.body, "error") /\ r.body.o.error = TryAgain

C7_Transient(p, r) ==
    /\ r.err # Null
    /\ CASE p = SteamApis -> C7_Status(r) = 404 \/ C7_TryAgain(r)
         [] p = SteamSupply -> C7_Status(r) = 500
         [] p = Rapid ->
                \/ C7_Status(r) = 429 /\ r.body = Null
                \/ C7_Status(r) = 504 /\ Has(r.body, "info")
                   /\ includes(r.body.o.info, TookTooLong)
                \/ C7_Status(r) \notin {0, 504} /\ C7_TryAgain(r)
         [] OTHER -> FALSE

\* A response without error that carries a page of the inventory
C7_Page(p, r) ==
    /\ r.err = Null
    /\ Has(Envelope(p, r), "assets")
    /\ Has(Envelope(p, r), "descriptions")
    /\ Flag(Envelope(p, r), "success")
    /\ ~C6_ReportsZero(Envelope(p, r).o)
    /\ ~Flag(Envelope(p, r), "fake_redirect")

\* While a request is in flight, the requests sent for its cursor and the
\* retries left add up to the budget plus one
C7_Budget ==
    (pc = "waiting" /\ provider \in C7_Retrying) =>
        /\ retries >= 0
        /\ retries + sentForCursor = retryBudget(provider) + 1

\* A transient failure is retried with the same cursor while retries are left,
\* and ends the fetch with an Error once the budget plus one requests were sent
C7_TransientStep ==
    (pc = "waiting" /\ provider \in C7_Retrying /\ C7_Transient(provider, last')) =>
        IF retries > 0
        THEN /\ pc' = "waiting"
             /\ inFlight' = 1
             /\ start' = start
             /\ retries' = retries - 1
             /\ sentForCursor' = sentForCursor + 1
             /\ callbacks' = callbacks
        ELSE /\ pc' = "done"
             /\ inFlight' = 0
             /\ sentForCursor' = retryBudget(provider) + 1
             /\ Len(callbacks') = 1
             /\ Len(callbacks'[1]) = 1
             /\ callbacks'[1][1].type = "Error"

\* A page that arrives after any number of retries is accumulated
C7_SuccessStep ==
    (pc = "waiting" /\ provider \in C7_Retrying /\ C7_Page(provider, last')) =>
        /\ [inventory |-> inventory', currency |-> currency', pos |-> pos',
            lookup |-> quickDescriptionLookup']
             = assetLoop(Envelope(provider, last').o.assets,
                         Envelope(provider, last').o.descriptions,
                         tradableOnly, 1, loopState(fetchState))
        /\ pc' \in {"waiting", "done"}
        /\ pc' = "done" => (Len(callbacks') = 1 /\ callbacks'[1][1] = Null)

\* C7: with retry budget N (5 for steamapis and steam.supply, 10 for rapid),
\* transient failures of the requests for one cursor are retried with that
\* cursor, a success after any of them is used, and the (N+1)-th consecutive
\* transient failure ends the fetch with an Error, after exactly N retries and
\* with no further request.
C7_RetryBudget == [] C7_Budget /\ [][C7_TransientStep /\ C7_SuccessStep]_vars

\* C7, its case: rapid failed for good on the eleventh request for a cursor
C7_BudgetExhausted ==
    /\ provider = Rapid
    /\ pc = "done"
    /\ last # NoResponse
    /\ C7_Transient(Rapid, last)
    /\ sentForCursor = RetriesRapid + 1
    /\ retries = 0
    /\ Len(callbacks) = 1
    /\ callbacks[1][1].type = "Error"

\* A response without error that reports success and an inventory of size zero
C10_ReportsZero(p, r) ==
    /\ r.err = Null
    /\ Flag(Envelope(p, r), "success")
    /\ Has(Envelope(p, r), "total_inventory_count")
    /\ Envelope(p, r).o.total_inventory_count = 0

\* A response of a terminal class: an error that is not of the provider's
\* transient kind (private profile, invalid key, forbidden, unclassified
\* transport error), or a malformed response that is not of the kind
\* steam.supply retries
C8_Terminal(p, r) ==
    IF r.err # Null THEN ~C7_Transient(p, r)
    ELSE /\ ~C10_ReportsZero(p, r)
         /\ \/ ~Has(Envelope(p, r), "assets")
            \/ ~Has(Envelope(p, r), "descriptions")
            \/ (p # IEcon /\ ~Flag(Envelope(p, r), "success"))
         /\ ~(p = SteamSupply
              /\ (r.body.type # "object" \/ Flag(r.body, "fake_redirect")))

\* C8: once a response is of a terminal class, no further request is issued
\* and the next event is the single error callback, whatever retries remain.
C8_TerminalEndsWithErrorCallback ==
    (last # NoResponse /\ C8_Terminal(provider, last)) =>
        /\ pc = "done"
        /\ inFlight = 0
        /\ Len(callbacks) = 1
        /\ Len(callbacks[1]) = 1
        /\ callbacks[1][1].type = "Error"

\* The fetch is waiting for the page after the last accepted one
C9_NextPageRequested == pc = "waiting" /\ pages > 0

C10_EmptyDelivered ==
    callbacks = << << Null, << >>, << >>, Value(0) >> >>

\* C10, as the specification states it: for every provider and on any page, a
\* response reporting success with total_inventory_count 0 completes the
\* fetch with callback(null, [], [], 0), with or without assets and
\* descriptions.
C10_ZeroAlwaysCompletes ==
    (last # NoResponse /\ C10_ReportsZero(provider, last)) =>
        (pc = "done" /\ inFlight = 0 /\ C10_EmptyDelivered)

\* The handler of such a response completes the fetch, unless steam.supply
\* has retries left and the response carries fake_redirect
C10_ZeroStep ==
    (/\ pc = "waiting"
     /\ C10_ReportsZero(provider, last')
     /\ ~(provider = SteamSupply /\ Flag(last'.body, "fake_redirect") /\ retries > 0))
    => (pc' = "done" /\ inFlight' = 0 /\ callbacks' = << << Null, << >>, << >>, Value(0) >> >>)

\* C10, amended: for every provider and on any page, a response without error
\* reporting success with total_inventory_count 0 completes the fetch with
\* callback(null, [], [], 0), with or without assets and descriptions, except
\* that steam.supply retries it while it carries fake_redirect and retries
\* are left.
C10_ZeroCompletesUnlessRetried == [][C10_ZeroStep]_vars

\* C10, its case: a later page reported an empty inventory, with assets listed
C10_ZeroWithAssetsOnLaterPage ==
    /\ pc = "done"
    /\ pages > 0
    /\ last # NoResponse
    /\ C10_ReportsZero(provider, last)
    /\ Has(Envelope(provider, last), "assets")
    /\ C10_EmptyDelivered

\* A response without error that lacks assets or descriptions, or the whole
\* envelope, and whose total count is absent or not zero
C11_Malformed(p, r) ==
    /\ r.err = Null
    /\ ~Has(Envelope(p, r), "assets") \/ ~Has(Envelope(p, r), "descriptions")
    /\ ~(/\ Has(Envelope(p, r), "total_inventory_count")
         /\ Envelope(p, r).o.total_inventory_count = 0)

\* The messages a malformed-response Error may carry for body
C11_Messages(body) ==
    {"Malformed response"}
    \cup (IF Has(body, "error") THEN {body.o.error} ELSE {})
    \cup (IF Has(body, "Error") THEN {body.o.Error} ELSE {})

\* C11: a response without error that lacks assets or descriptions (or its
\* envelope) and reports no zero count ends the fetch with a single
\* malformed-response Error through the callback; the handler never crashes
\* and no result arrays are delivered.
C11_MalformedEndsWithError ==
    (last # NoResponse /\ C11_Malformed(provider, last)) =>
        /\ pc = "done"
        /\ Len(callbacks) = 1
        /\ Len(callbacks[1]) = 1
        /\ callbacks[1][1].type = "Error"
        /\ callbacks[1][1].message \in C11_Messages(last.body)

\* The fetch ended in success: the callback ran once, with null for the error
C12_Succeeded ==
    pc = "done" /\ Len(callbacks) = 1 /\ callbacks[1][1] = Null

\* The records delivered, items then currency
C12_Records == callbacks[1][2] \o callbacks[1][3]

\* Some accepted page describes rec's class and instance as tradable, under
\* the name rec carries
C12_HasTradableDescription(rec) ==
    \E k \in 1..Len(accepted) :
        \E j \in 1..Len(C6_Descriptions(accepted[k])) :
            /\ DescriptionKey(C6_Descriptions(accepted[k])[j]) = DescriptionKey(rec)
            /\ "tradable" \in DOMAIN C6_Descriptions(accepted[k])[j]
            /\ C6_Descriptions(accepted[k])[j].tradable # 0
            /\ "name" \in DOMAIN rec
            /\ C6_Descriptions(accepted[k])[j].name = rec.name

\* The number of assets the accepted pages i.. list
RECURSIVE C12_AssetCount(_)
C12_AssetCount(i) ==
    IF i > Len(accepted) THEN 0
    ELSE Len(C6_Assets(accepted[i])) + C12_AssetCount(i + 1)

\* With tradableOnly every delivered record has a tradable description
C12_OnlyTradable ==
    (C12_Succeeded /\ tradableOnly) =>
        \A i \in 1..Len(C12_Records) :
            /\ C12_Records[i].tradable = TRUE
            /\ C12_HasTradableDescription(C12_Records[i])

\* C12, as the specification states it: with tradableOnly every delivered
\* record has a matched description whose tradable flag is set, and without
\* it every asset of every successful page is delivered.
C12_FilterOrEverything ==
    /\ C12_OnlyTradable
    /\ (C12_Succeeded /\ ~tradableOnly) => Len(C12_Records) = C12_AssetCount(1)

\* C12, amended: with tradableOnly every delivered record has a matched
\* description whose tradable flag is set; without it, and when no page
\* reports a total_inventory_count of 0, every asset of every successful page
\* is delivered.
C12_FilterOrEverythingNonEmpty ==
    /\ C12_OnlyTradable
    /\ (/\ C12_Succeeded /\ ~tradableOnly
        /\ \A i \in 1..Len(accepted) : ~C6_ReportsZero(accepted[i]))
           => Len(C12_Records) = C12_AssetCount(1)

\* C12, its case: a fetch with tradableOnly delivered some of the assets of
\* its pages and held others back
C12_SomeFilteredOut ==
    /\ C12_Succeeded
    /\ tradableOnly
    /\ Len(accepted) > 1
    /\ Len(C12_Records) > 0
    /\ Len(C12_Records) < C12_AssetCount(1)

\* The records accumulated so far, items then currency
C13_Records == inventory \o currency

\* The positions of seq are strictly increasing
C13_Increasing(seq) ==
    \A i \in 1..Len(seq) : \A j \in 1..Len(seq) : i < j => seq[i].pos < seq[j].pos

\* C13: in every reachable state the positions assigned so far are exactly
\* 1..k, without gap or duplicate, k being the number of records that passed
\* the filter so far; they follow the fetch order in each array; rejected
\* assets, failed attempts and retries take no position.
C13_PositionsContiguous ==
    /\ { C13_Records[i].pos : i \in 1..Len(C13_Records) } = 1..Len(C13_Records)
    /\ C13_Increasing(inventory)
    /\ C13_Increasing(currency)
    /\ pos = (IF pc = "start" \/ sentForCursor = 0 THEN 0 ELSE Len(C13_Records) + 1)

\* C13, its case: on the third page, after a retry, with assets rejected by
\* the filter and records in both arrays
C13_FilteredAcrossPages ==
    /\ pc = "waiting"
    /\ tradableOnly
    /\ pages = 2
    /\ sentForCursor > 1
    /\ inventory # << >>
    /\ currency # << >>
    /\ Len(C13_Records) < C12_AssetCount(1)

\* C14: every record of the currency array is a currency and no record of the
\* inventory array is one, a record being a currency exactly when the
\* normalizer's is_currency flag says so (a truthy is_currency or currency
\* marker, or a defined currencyid, on the raw asset).
C14_ArraysAgreeWithIsCurrency ==
    /\ \A i \in 1..Len(currency) : currency[i].is_currency = TRUE
    /\ \A i \in 1..Len(inventory) : inventory[i].is_currency = FALSE

\* At most one request is in flight, exactly while the fetch waits, and none
\* once the callback has run
C15_OneInFlight ==
    /\ inFlight \in {0, 1}
    /\ (pc = "waiting") <=> (inFlight = 1)
    /\ callbacks # << >> => inFlight = 0

\* A request after the first is issued by the handler of the response to the
\* one before it, and no callback runs in that step
C15_IssuedFromHandler ==
    (pc # "start" /\ (sentForCursor' # sentForCursor \/ pages' # pages)) =>
        /\ pc = "waiting"
        /\ inFlight = 1
        /\ inFlight' = 1
        /\ last' # NoResponse
        /\ callbacks' = << >>

\* C15: at most one request of a fetch is in flight at any time; the request
\* for the next page or a retry is issued only from inside the handler of the
\* previous request's response; the final callback is never invoked while a
\* request is outstanding.
C15_OneRequestAtATime == [] C15_OneInFlight /\ [][C15_IssuedFromHandler]_vars

\* C15, its case: the callback ran after three pages and a retry
C15_CallbackAfterLastResponse ==
    /\ pc = "done"
    /\ pages = 2
    /\ sentForCursor > 1
    /\ inFlight = 0
    /\ Len(callbacks) = 1

\* C16: two fetches started on one client and run at the same time, their
\* responses interleaved in any order, each hold and deliver exactly what
\* they would when run alone: the accumulators, the cursor, the retry count,
\* the position counter and the description index of one are never read or
\* written by the other.
C16_FetchesIsolated ==
    \A f \in Fetches :
        /\ fetches.live[f] = fetches.alone[f].fetch
        /\ fetches.live[f].pc # "start" =>
               fetches.closure[closureOf(f)] = fetches.alone[f].closure

\* C16, its case: both fetches are between their first and second page, of
\* different providers, and have accumulated items
C16_BothMidFetch ==
    /\ \A f \in Fetches :
          /\ fetches.live[f].pc = "waiting"
          /\ fetches.live[f].pages = 1
          /\ fetches.live[f].inventory # << >>
    /\ fetches.live[1].provider # fetches.live[2].provider
    /\ fetches.closure[1] # fetches.closure[2]

\* C17: for every raw asset with a defined currencyid, with or without a
\* matched description, the normalized record's id is that currency id and
\* the record carries no assetid; for every other raw asset the record's id
\* is its asset id.
C17_IdFollowsCurrencyid ==
    normalized.called =>
        IF "currencyid" \in DOMAIN normalized.item
        THEN /\ "id" \in DOMAIN normalized.record
             /\ normalized.record.id = normalized.item.currencyid
             /\ "assetid" \notin DOMAIN normalized.record
        ELSE "assetid" \in DOMAIN normalized.item =>
                 /\ "id" \in DOMAIN normalized.record
                 /\ normalized.record.id = normalized.item.assetid

\* C18: every normalized item has a non-empty id and an amount that is a
\* non-negative integer, for every raw asset and description a provider can
\* return: an asset with a missing, non-numeric or negative amount, an asset
\* with neither id nor assetid, a description that itself carries an id or
\* an amount.
C18_IdAndAmountWellFormed ==
    normalized.called =>
        /\ "id" \in DOMAIN normalized.record
        /\ normalized.record.id # ""
        /\ normalized.record.amount.type = "number"
        /\ normalized.record.amount.v >= 0

\* C19, the key of an asset or description: its class and its instance, "0"
\* for an instance that is absent (or empty)
C19_Instance(o) ==
    IF "instanceid" \notin DOMAIN o THEN "0"
    ELSE IF o.instanceid = "" THEN "0" ELSE o.instanceid
C19_Key(o) == o.classid \o "_" \o C19_Instance(o)

\* C19, the entry of the list that a key resolves to once the list is
\* absorbed: the last one stored under that key
RECURSIVE C19_LastUnder(_, _, _)
C19_LastUnder(descriptions, key, i) ==
    IF i = 0 THEN Undefined
    ELSE IF C19_Key(descriptions[i]) = key THEN Obj(descriptions[i])
    ELSE C19_LastUnder(descriptions, key, i - 1)

C19_Keys(lookup, descriptions) ==
    DOMAIN lookup \cup { C19_Key(descriptions[i]) : i \in 1..Len(descriptions) }

\* C19: resolving one (classID, instanceID) key twice with the same
\* description list returns the same description both times; absorbing the
\* list again leaves the index as it was, with one entry per key and the last
\* entry of the list under a key it has twice; an absent instanceID counts
\* as "0" in the key looked up and in the key stored.
C19_ResolveIdempotent ==
    indexed.called =>
        /\ indexed.second = indexed.first
        /\ indexed.after = indexed.between
        /\ Absorb(Absorb(indexed.before, indexed.descriptions, 1),
                  indexed.descriptions, 1)
             = Absorb(indexed.before, indexed.descriptions, 1)
        /\ DOMAIN Absorb(indexed.before, indexed.descriptions, 1)
             = C19_Keys(indexed.before, indexed.descriptions)
        /\ \A key \in C19_Keys(indexed.before, indexed.descriptions) :
              resolve(Absorb(indexed.before, indexed.descriptions, 1), key)
                = IF C19_LastUnder(indexed.descriptions, key,
                                   Len(indexed.descriptions)) = Undefined
                  THEN resolve(indexed.before, key)
                  ELSE C19_LastUnder(indexed.descriptions, key,
                                     Len(indexed.descriptions))
        /\ indexed.first =
              getDescription(indexed.before, indexed.descriptions,
                             [classid |-> indexed.asset.classid,
                              instanceid |-> C19_Instance(indexed.asset)])

\* C19, its case: the list describes the class looked up twice, once with
\* instanceid "0" and then with an empty one, the asset has no instanceid,
\* and both lookups return the later description
C19_DuplicateKeyResolved ==
    /\ indexed.called
    /\ indexed.descriptions = << d2zero, d2empty >>
    /\ indexed.asset = [classid |-> "c2"]
    /\ indexed.before = EmptyObject
    /\ indexed.first = Obj(d2empty)
    /\ indexed.second = Obj(d2empty)

\* C20: for every entry point, a call that leaves the language out (the
\* callback stands in its place) behaves as the call with language "english"
\* and the same callback: the same requests go out, with language "english",
\* and the same one invocation of the callback results.
C20_OmittedIsEnglish ==
    /\ calls.given = "english" => calls.omitted = calls.full
    /\ calls.omitted.request # Undefined =>
           calls.omitted.request.o.l = Str("english")
    /\ calls.given # "none" =>
           /\ calls.omitted.callback = calls.full.callback
           /\ Len(calls.omitted.callbacks) <= 1
           /\ calls.omitted.pc = "done" <=> Len(calls.omitted.callbacks) = 1

\* C20, its case: the language was left out, the fetch took two pages and
\* the callback got the items, as in the call with "english"
C20_OmittedDelivered ==
    /\ calls.given = "english"
    /\ calls.omitted.pc = "done"
    /\ calls.omitted.pages = 1
    /\ calls.omitted.language = Str("english")
    /\ calls.omitted.callback = Function("g")
    /\ Len(calls.omitted.callbacks) = 1
    /\ Len(calls.omitted.callbacks[1]) > 1
    /\ calls.full.callbacks = calls.omitted.callbacks

\* C21, a retried attempt: the handler ends by a request although it took
\* no page
C21_RetryStep ==
    (pc = "waiting" /\ pc' = "waiting" /\ accepted' = accepted) =>
        /\ start' = start
        /\ inventory' = inventory
        /\ currency' = currency
        /\ pos' = pos
        /\ quickDescriptionLookup' = quickDescriptionLookup
        /\ retries' = retries - 1
        /\ retries' >= 0
        /\ inFlight' = 1

\* C21: a retry sends the request again with the same cursor and leaves the
\* accumulators, the position counter and the description index as they
\* were; only the retries left go down, by exactly 1, and never below 0.
C21_RetryKeepsState == [] (retries >= 0) /\ [][C21_RetryStep]_vars

\* C21, its case: the last retry of a later page is under way, with items
\* accumulated and descriptions indexed
C21_RetriedAfterPage ==
    /\ pc = "waiting"
    /\ provider \in C7_Retrying
    /\ retries = 0
    /\ sentForCursor = retryBudget(provider) + 1
    /\ start # Undefined
    /\ inventory # << >>
    /\ quickDescriptionLookup # EmptyObject

\* C22, the two providers whose get has no retries parameter
C22_Unretried == {Contents, IEcon}

C22_ErrorOrMalformed(p, r) == r.err # Null \/ C11_Malformed(p, r)

C23_Bound ==
    counted.call.pc # "start" =>
        counted.sent <= (counted.call.pages + 1)
                          * (retryBudget(counted.call.provider) + 1)

\* C23, a page with more_items was taken: the request for the next page has
\* the whole budget
C23_NextPageStep ==
    counted.call'.pages = counted.call.pages + 1 =>
        /\ counted.call'.pc = "waiting"
        /\ counted.call'.retries = retryBudget(counted.call.provider)
        /\ counted.sent' = counted.sent + 1

\* C23: the retry budget is per cursor, not per fetch: after a page with the
\* more-items flag the request for the next page starts with the full budget
\* (5 or 10) whatever the earlier pages used, so a fetch of p pages sends at
\* most p * (budget + 1) requests.
C23_BudgetPerCursor == [] C23_Bound /\ [][C23_NextPageStep]_vars

\* C23, its case: rapid ended on its third page, every page after ten
\* retries, 33 requests in all
C23_EveryPageRetriedTenTimes ==
    /\ counted.call.provider = Rapid
    /\ counted.call.pc = "done"
    /\ counted.call.pages = 2
    /\ counted.sent = 3 * (RetriesRapid + 1)
    /\ Len(counted.call.callbacks) = 1
    /\ counted.call.callbacks[1][1] = Null

\* C24: when every request sent gets a response in the end and the provider
\* sets the more-items flag on finitely many pages, every fetch invokes its
\* callback in the end; no run of transient failures keeps it retrying
\* forever.
C24_CallbackInTheEnd == (pc = "waiting") ~> (Len(callbacks) = 1)

\* C25, as stated: a page after the first that reports success with
\* total_inventory_count 0 completes the fetch with callback(null, [], [], 0)
C25_LaterZeroCompletes ==
    (pages > 0 /\ last # NoResponse /\ C10_ReportsZero(provider, last)) =>
        /\ pc = "done"
        /\ callbacks = << << Null, << >>, << >>, Value(0) >> >>

\* The handler of such a page, unless steam.supply retries it: the callback
\* gets empty arrays and the accumulators stay as they were
C25_LaterZeroStep ==
    (/\ pc = "waiting"
     /\ pages > 0
     /\ C10_ReportsZero(provider, last')
     /\ ~(provider = SteamSupply /\ Flag(last'.body, "fake_redirect") /\ retries > 0))
    => /\ pc' = "done"
       /\ Len(callbacks') = 1
       /\ callbacks'[1] = << Null, << >>, << >>, Value(0) >>
       /\ inventory' = inventory
       /\ currency' = currency

\* C25, amended: a page after the first that reports success with
\* total_inventory_count 0 completes the fetch with callback(null, [], [], 0),
\* the items of the earlier pages are not delivered and fresh empty arrays
\* are passed, except that steam.supply retries a response that carries
\* fake_redirect while retries are left.
C25_LaterZeroDropsItems == [][C25_LaterZeroStep]_vars

\* C25, its case: items of both kinds were accumulated and the callback got
\* empty arrays
C25_ItemsDropped ==
    /\ pc = "done"
    /\ pages > 0
    /\ inventory # << >>
    /\ currency # << >>
    /\ last # NoResponse
    /\ C10_ReportsZero(provider, last)
    /\ callbacks = << << Null, << >>, << >>, Value(0) >> >>

\* C26, the entry a key has once the list is absorbed into index lookup: the
\* last one of the list under the key, else the one the index held
C26_EntryAfter(lookup, descriptions, key) ==
    IF C19_LastUnder(descriptions, key, Len(descriptions)) # Undefined
    THEN C19_LastUnder(descriptions, key, Len(descriptions))
    ELSE IF key \in DOMAIN lookup THEN Obj(lookup[key]) ELSE Undefined

\* C26, a hit: the stored description is returned and the index stays
C26_Hit(key) ==
    /\ indexed.first = Obj(indexed.before[key])
    /\ indexed.between = indexed.before

\* C26, a miss: the whole list is absorbed, and the key resolves to its entry
\* then, undefined when it has none
C26_Miss(key) ==
    /\ DOMAIN indexed.between = C19_Keys(indexed.before, indexed.descriptions)
    /\ \A k \in DOMAIN indexed.between :
          Obj(indexed.between[k])
            = C26_EntryAfter(indexed.before, indexed.descriptions, k)
    /\ indexed.first = C26_EntryAfter(indexed.before, indexed.descriptions, key)
    /\ key \notin C19_Keys(indexed.before, indexed.descriptions) =>
           indexed.first = Undefined

\* C26: the description index kept from the earlier pages is changed only on
\* a miss: a key already in it resolves to the stored description and the
\* current list is not absorbed, even when the list describes the key
\* otherwise; a miss on any key absorbs the whole list, overwriting the
\* stored entry of every key the list has; a key in neither the index nor
\* the list resolves to undefined.
C26_IndexChangedOnlyOnMiss ==
    indexed.called =>
        IF C19_Key(indexed.asset) \in DOMAIN indexed.before
        THEN C26_Hit(C19_Key(indexed.asset))
        ELSE C26_Miss(C19_Key(indexed.asset))

\* C26, its case: the index holds a description of the class from an earlier
\* page, the list describes the class otherwise, and the stored one is
\* returned
C26_StoredDescriptionWins ==
    /\ indexed.called
    /\ indexed.before = Absorb(EmptyObject, << d1x >>, 1)
    /\ indexed.descriptions = << d1, d3 >>
    /\ indexed.asset = [classid |-> "c1", instanceid |-> "0"]
    /\ indexed.first = Obj(d1x)
    /\ indexed.between = indexed.before

\* C27, a response without error whose body is no object, or carries
\* fake_redirect
C27_NotAnObject(r) == r.err = Null /\ r.body.type # "object"
C27_Redirect(r) ==
    r.err = Null /\ (r.body.type # "object" \/ Flag(r.body, "fake_redirect"))

\* C27, the handler of steam.supply on such a response
C27_RedirectStep ==
    (pc = "waiting" /\ provider = SteamSupply /\ C27_Redirect(last')) =>
        IF retries > 0
        THEN /\ pc' = "waiting"
             /\ start' = start
             /\ retries' = retries - 1
             /\ sentForCursor' = sentForCursor + 1
             /\ inventory' = inventory
             /\ currency' = currency
        ELSE C27_NotAnObject(last') =>
                 /\ pc' = "done"
                 /\ callbacks' = << << Error("Malformed response") >> >>
                 /\ inventory' = inventory
                 /\ currency' = currency

\* C27, one budget of 5 per cursor for these retries and those of HTTP 500
C27_OneBudget ==
    (pc = "waiting" /\ provider = SteamSupply) =>
        /\ retries >= 0
        /\ retries + sentForCursor = RetriesSteamSupply + 1

\* C27: steam.supply retries a response without error whose body is not an
\* object or carries fake_redirect, with the same cursor while budget remains
\* and on the same budget of 5 per cursor as HTTP 500; with the budget used
\* up the response goes on to the ordinary validation, so a body that is not
\* an object ends the fetch with a "Malformed response" error and no assets
\* are ever taken from it.
C27_RedirectRetried == [] C27_OneBudget /\ [][C27_RedirectStep]_vars

\* C28, the item was made: the constructor did not throw
C28_Made == normalized.called /\ "thrown" \notin DOMAIN normalized.record

\* C28, the owner descriptions the item ends up with: the description's,
\* else the asset's
C28_OwnerDescriptions ==
    IF /\ normalized.description # Undefined
       /\ "owner_descriptions" \in DOMAIN normalized.description.o
    THEN normalized.description.o.owner_descriptions
    ELSE IF "owner_descriptions" \in DOMAIN normalized.item
    THEN normalized.item.owner_descriptions
    ELSE << >>

\* C28, some owner description begins with "Tradable After "
C28_HasTradableAfter ==
    \E i \in 1..Len(C28_OwnerDescriptions) :
        C28_OwnerDescriptions[i].value \in {TradableAfter, TradableAfterSoon}

\* C28, as stated: an item that has an item_expiration field has it as its
\* cache_expiration
C28_ExpirationCopied ==
    (C28_Made /\ "item_expiration" \in DOMAIN normalized.item) =>
        /\ "cache_expiration" \in DOMAIN normalized.record
        /\ normalized.record.cache_expiration = normalized.item.item_expiration

\* C28, amended: an item with a non-empty item_expiration has it as its
\* cache_expiration, also when it is of app 730 and context 2 and carries a
\* "Tradable After" owner description; an item without item_expiration (or
\* with an empty one) and without such a description has no
\* cache_expiration.
C28_ItemExpirationFirst ==
    C28_Made =>
        IF /\ "item_expiration" \in DOMAIN normalized.item
           /\ normalized.item.item_expiration # ""
        THEN /\ "cache_expiration" \in DOMAIN normalized.record
             /\ normalized.record.cache_expiration = normalized.item.item_expiration
        ELSE ~C28_HasTradableAfter =>
                 "cache_expiration" \notin DOMAIN normalized.record

\* C28, its case: an item of app 730 and context 2 with a "Tradable After"
\* owner description and an item_expiration
C28_BothPresent ==
    /\ C28_Made
    /\ "appid" \in DOMAIN normalized.item
    /\ normalized.item.appid = 730
    /\ normalized.record.contextid = "2"
    /\ normalized.description # Undefined
    /\ "owner_descriptions" \in DOMAIN normalized.description.o
    /\ normalized.description.o.owner_descriptions
         = << [value |-> NotTradable], [value |-> TradableAfter] >>
    /\ "item_expiration" \in DOMAIN normalized.item
    /\ normalized.item.item_expiration = "2031-05-01T00:00:00Z"
    /\ normalized.record.cache_expiration = "2031-05-01T00:00:00Z"

====
